---- MODULE Spec2Model ----
(***************************************************************************)
(* git_asistant.py: the interactive session (main loop, pre-publish        *)
(* staging, branch flow), the three global ledgers, the SIGINT rollback    *)
(* and the file browser, as a state machine.                               *)
(*                                                                         *)
(* Spec        : the whole session, with SIGINT possible at every point.   *)
(* FairSpec    : the session cancelled once, the handler running on.       *)
(* BrowserSpec : one call of browse_and_select_files on a small tree.      *)
(***************************************************************************)
EXTENDS Integers, Sequences, FiniteSets, TLC

VARIABLES
    pc,                  \* position of the main thread
    exitCode,            \* process exit status, NoExit while running
    selected,            \* main(): projects chosen by choose_projects
    idx,                 \* main(): position of the for loop in selected
    pending,             \* main(): the action returned by ask_action
    addAll, files,       \* arguments of the pending add_and_commit call
    create,              \* argument of the pending checkout_branch call
    TOUCHED_REPOS,       \* global list (line 81)
    FILES_ADDED_BY_REPO, \* global dict (line 82), <<>> = key absent
    BRANCH_CHANGED,      \* global dict (line 83), <<>> = key absent
    isRepo, unborn, branch, branches, tree, commits,  \* the repositories on disk
    revertEntries,       \* how many times revert_changes was entered: 0, 1, or 2 for
                         \* two or more
    rv,                  \* position of the running revert_changes pass
    visited,             \* repositories the running pass has started on
    revertLog,           \* backend calls of the running pass on its current repository
    revertAllOk,         \* every rollback call so far returned 0
    revertRaised,        \* the last rollback call of the running pass raised
    actions,             \* answers given to ask_action so far
    called,              \* repositories a backend command was issued against
    isRepo0, branch0, tree0,   \* the repositories as they were before the session
    current, bselected, returned, bpc  \* browse_and_select_files: locals and result

vars == << pc, exitCode, selected, idx, pending, addAll, files, create,
           TOUCHED_REPOS, FILES_ADDED_BY_REPO, BRANCH_CHANGED,
           isRepo, unborn, branch, branches, tree, commits,
           revertEntries, rv, visited, revertLog,
           revertAllOk, revertRaised, actions, called, isRepo0, branch0, tree0,
           current, bselected, returned, bpc >>

sessionVars == << pc, exitCode, selected, idx, pending, addAll, files, create,
           TOUCHED_REPOS, FILES_ADDED_BY_REPO, BRANCH_CHANGED,
           isRepo, unborn, branch, branches, tree, commits,
           revertEntries, rv, visited, revertLog,
           revertAllOk, revertRaised, actions, called, isRepo0, branch0, tree0 >>

browserVars == << current, bselected, returned, bpc >>

ledgerVars == << TOUCHED_REPOS, FILES_ADDED_BY_REPO, BRANCH_CHANGED >>
gitVars == << isRepo, unborn, branch, branches, tree, commits >>
revertVars == << revertEntries, rv, visited, revertLog, revertAllOk, revertRaised >>
ghostVars == << isRepo0, branch0, tree0 >>
callVars == << pending, addAll, files, create >>

----------------------------------------------------------------------------
(* Bounds *)

MaxTouched == 2      \* add_and_commit calls per session
MaxActions == 2      \* answers to ask_action per session

----------------------------------------------------------------------------
(* Values *)

Repos == {"r1", "r2"}
BranchNames == {"main", "dev", "feat"}
NoExit == -1

Range(s) == {s[i] : i \in 1..Len(s)}
NoDup(s) == \A i, j \in 1..Len(s) : s[i] = s[j] => i = j
IsPrefix(p, q) == Len(p) <= Len(q) /\ SubSeq(q, 1, Len(p)) = p

\* Paths are sequences of components.  The files of a repository that the
\* session model follows, relative to the repository root, and "." .
RelFiles == {<<"a.txt">>, <<"sub", "b.txt">>}
Dot == <<".">>

\* Status of a file against HEAD and the index.
Statuses == {"absent", "clean", "modified", "untracked", "added", "staged"}

----------------------------------------------------------------------------
(* The backend commands the program issues, by their effect on a tree *)

\* git status --porcelain prints something
has_uncommitted_changes(r) == \E f \in RelFiles : tree[r][f] \notin {"absent", "clean"}

\* git add <paths>
GitAdd(t, paths) ==
    [f \in RelFiles |->
        IF f \in Range(paths) \/ Dot \in Range(paths)
        THEN CASE t[f] = "modified"  -> "staged"
               [] t[f] = "untracked" -> "added"
               [] OTHER              -> t[f]
        ELSE t[f]]

\* git commit -m msg
GitCommit(t) ==
    [f \in RelFiles |-> IF t[f] \in {"staged", "added"} THEN "clean" ELSE t[f]]

\* git restore --staged .
GitRestoreStaged(t) ==
    [f \in RelFiles |->
        CASE t[f] = "staged" -> "modified"
          [] t[f] = "added"  -> "untracked"
          [] OTHER           -> t[f]]

\* git reset --hard
GitResetHard(t) ==
    [f \in RelFiles |->
        CASE t[f] \in {"staged", "modified"} -> "clean"
          [] t[f] = "added"                   -> "absent"
          [] OTHER                            -> t[f]]

\* git clean -fd
GitCleanFd(t) ==
    [f \in RelFiles |-> IF t[f] = "untracked" THEN "absent" ELSE t[f]]

\* get_branches: git rev-parse --abbrev-ref HEAD, git branch --format
get_branches_current(r) == IF unborn[r] THEN "HEAD" ELSE branch[r]
get_branches_local(r) == IF unborn[r] THEN {} ELSE branches[r]

----------------------------------------------------------------------------
(* Process exit *)

ProcessExit(code) ==
    /\ pc' = "done"
    /\ exitCode' = code

\* sys.exit(1), or an exception that reaches the top of __main__
\* (RuntimeError of a checked run_git is not a KeyboardInterrupt)
ExitFatal == ProcessExit(1)

\* run_git(args, cwd=r): a backend command is issued against r
run_git(r) == called' = called \cup {r}

\* (mutant) the handler leaves with the status of a fatal error
HandleSigintExitsOne == ProcessExit(1)

\* handle_sigint: finally sys.exit(130)
HandleSigintExit == ProcessExit(130)

----------------------------------------------------------------------------
(* Initial state: the globals as the module defines them, and the           *)
(* repositories as the operator left them before the session.               *)

\* r1 has an edited tracked file and an untracked file; r2 has an edited
\* tracked file, or is a plain directory holding one file
InitTree(r, isrepo) ==
    [f \in RelFiles |->
        IF f = <<"a.txt">> THEN (IF isrepo THEN "modified" ELSE "untracked")
        ELSE IF r = "r1" THEN "untracked" ELSE "absent"]

SessionInit ==
    /\ pc = "start"
    /\ exitCode = NoExit
    /\ selected = <<>>
    /\ idx = 0
    /\ pending = "none"
    /\ addAll = FALSE
    /\ files = <<>>
    /\ create = FALSE
    /\ TOUCHED_REPOS = <<>>
    /\ FILES_ADDED_BY_REPO = [r \in Repos |-> <<>>]
    /\ BRANCH_CHANGED = [r \in Repos |-> <<>>]
    /\ isRepo \in {f \in [Repos -> BOOLEAN] : f["r1"]}
    /\ unborn = [r \in Repos |-> FALSE]
    /\ branch = [r \in Repos |-> "main"]
    /\ branches = [r \in Repos |-> IF isRepo[r] THEN {"main", "dev"} ELSE {}]
    /\ tree = [r \in Repos |-> InitTree(r, isRepo[r])]
    /\ commits = [r \in Repos |-> 0]
    /\ revertEntries = 0
    /\ rv = [i |-> 0, step |-> "none"]
    /\ visited = <<>>
    /\ revertLog = <<>>
    /\ revertAllOk = TRUE
    /\ revertRaised = FALSE
    /\ actions = 0
    /\ called = {}
    /\ isRepo0 = isRepo
    /\ branch0 = branch
    /\ tree0 = tree

BrowserIdle ==
    /\ current = <<>>
    /\ bselected = <<>>
    /\ returned = <<>>
    /\ bpc = "idle"

Init == SessionInit /\ BrowserIdle

----------------------------------------------------------------------------
(* main(): project list, selection, and the per-project loop *)

Selections == {<<>>, <<"r1">>, <<"r1", "r2">>, <<"r2", "r1">>}
ActionKinds == {"pull", "fetch", "status", "log", "push", "push_u", "pr", "branch", "quit"}
\* (mutant) the test of line 557 also matches "Pull"
PublishKindsWithPull == {"push", "push_u", "pr", "pull"}

\* action.startswith("Push") or action.startswith("Crear Pull Request")
PublishKinds == {"push", "push_u", "pr"}

repo == selected[idx]

\* the for loop of main() moves to the next project, or main() returns
NextProject ==
    IF idx < Len(selected)
    THEN /\ idx' = idx + 1
         /\ pc' = "ensure"
         /\ UNCHANGED exitCode
    ELSE /\ ProcessExit(0)
         /\ UNCHANGED idx

\* the locals of one iteration of the while loop are dead after it
ClearCall ==
    /\ pending' = "none"
    /\ addAll' = FALSE
    /\ files' = <<>>
    /\ create' = FALSE

\* Confirm.ask("Hacer otra accion en este repo?")
Continue(again) ==
    /\ ClearCall
    /\ IF again
       THEN /\ pc' = "menu"
            /\ UNCHANGED << idx, exitCode >>
       ELSE NextProject

\* load_projects exits 1 (missing file, bad format, invalid element), or
\* the list is empty
LoadProjectsFail ==
    /\ pc = "start"
    /\ ExitFatal
    /\ UNCHANGED << selected, idx, callVars, ledgerVars, gitVars, revertVars,
                    actions, called, ghostVars, browserVars >>

\* choose_projects, then the first iteration of the for loop
ChooseProjects(sel) ==
    /\ pc = "start"
    /\ selected' = sel
    /\ IF sel = <<>>
       THEN /\ ProcessExit(0)
            /\ UNCHANGED idx
       ELSE /\ idx' = 1
            /\ pc' = "ensure"
            /\ UNCHANGED exitCode
    /\ UNCHANGED << callVars, ledgerVars, gitVars, revertVars,
                    actions, called, ghostVars, browserVars >>

\* (mutant) a declined initialisation skips the project
EnsureDeclinedContinues == NextProject

\* ensure_clean_repo, lines 306-308: the operator declines; sys.exit(1)
EnsureDeclined ==
    /\ ExitFatal
    /\ UNCHANGED idx

\* ensure_clean_repo up to the answer to "Inicializar git aqui?"
EnsureCleanRepo(confirm) ==
    /\ pc = "ensure"
    /\ IF isRepo[repo]
       THEN /\ pc' = "menu"
            /\ UNCHANGED << idx, exitCode >>
       ELSE IF confirm
       THEN /\ pc' = "init"
            /\ UNCHANGED << idx, exitCode >>
       ELSE EnsureDeclined
    /\ UNCHANGED << selected, callVars, ledgerVars, gitVars, revertVars,
                    actions, called, ghostVars, browserVars >>

\* ensure_clean_repo, lines 294-305: git init, and with a remote URL
\* git remote add and git checkout -b main, all checked.
\* outcome: which checked call fails, if any
EnsureInit(outcome) ==
    /\ pc = "init"
    /\ run_git(repo)
    /\ IF outcome = "init_fails"
       THEN /\ ExitFatal
            /\ UNCHANGED gitVars
       ELSE /\ isRepo' = [isRepo EXCEPT ![repo] = TRUE]
            /\ unborn' = [unborn EXCEPT ![repo] = TRUE]
            /\ UNCHANGED << branches, tree, commits >>
            /\ IF outcome = "ok"
               THEN /\ branch' = [branch EXCEPT ![repo] = "main"]
                    /\ pc' = "menu"
                    /\ UNCHANGED exitCode
               ELSE /\ ExitFatal
                    /\ UNCHANGED branch
    /\ UNCHANGED << selected, idx, callVars, ledgerVars, revertVars,
                    actions, ghostVars, browserVars >>

SimpleKinds == {"pull", "fetch", "status", "log"}

\* ask_action, and the test of the while loop on its answer (lines 552-559)
AskAction(a) ==
    /\ pc = "menu"
    /\ IF a = "quit"
       THEN /\ NextProject
            /\ UNCHANGED << callVars, actions >>
       ELSE /\ actions < MaxActions
            /\ actions' = actions + 1
            /\ pending' = a
            /\ pc' = IF a \in PublishKinds THEN "prepublish" ELSE "dispatch"
            /\ UNCHANGED << idx, exitCode, addAll, files, create >>
    /\ UNCHANGED << selected, ledgerVars, gitVars, revertVars,
                    called, ghostVars, browserVars >>

\* lists browse_and_select_files returns: nothing, one file, both files
BrowseResults == {<<>>, << <<"a.txt">> >>, << <<"a.txt">>, <<"sub", "b.txt">> >>}

\* for p in picked: if p not in files: files.append(p)
RECURSIVE Accumulate(_, _)
Accumulate(fs, picked) ==
    IF picked = <<>> THEN fs
    ELSE Accumulate(IF Head(picked) \in Range(fs) THEN fs ELSE Append(fs, Head(picked)),
                    Tail(picked))

\* maybe_stage_and_commit, up to its call of add_and_commit
MaybeStageAndCommit(stage, include_all, picked1, more, picked2) ==
    /\ pc = "prepublish"
    /\ IF ~has_uncommitted_changes(repo) \/ ~stage
       THEN /\ pc' = "dispatch"
            /\ UNCHANGED << addAll, files >>
       ELSE /\ Len(TOUCHED_REPOS) < MaxTouched
            /\ addAll' = include_all
            /\ files' = IF include_all THEN <<>>
                        ELSE IF more THEN Accumulate(Accumulate(<<>>, picked1), picked2)
                        ELSE Accumulate(<<>>, picked1)
            /\ pc' = "add_entry"
    /\ run_git(repo)
    /\ UNCHANGED << exitCode, selected, idx, pending, create, ledgerVars, gitVars,
                    revertVars, actions, ghostVars, browserVars >>

\* (mutant) the list is started afresh at each add_and_commit
TouchedRestarted(r) == << r >>

\* (mutant) the repository is not marked at the entry of add_and_commit
TouchedNotAppended(r) == TOUCHED_REPOS

\* add_and_commit, line 367
TouchedAfterAppend(r) == Append(TOUCHED_REPOS, r)

AddAndCommitTouch ==
    /\ pc = "add_entry"
    /\ TOUCHED_REPOS' = TouchedAfterAppend(repo)
    /\ pc' = "add_git"
    /\ UNCHANGED << exitCode, selected, idx, callVars, FILES_ADDED_BY_REPO, BRANCH_CHANGED,
                    gitVars, revertVars, actions, called, ghostVars, browserVars >>

\* (repo / f).exists()
Exists(r, f) == tree[r][f] # "absent"

\* the paths add_and_commit hands to git add; <<>> when it issues no git add
StagePaths(r) ==
    IF addAll THEN << Dot >>
    ELSE SelectSeq(files, LAMBDA f : Exists(r, f))

\* add_and_commit, lines 369-387: the checked git add and the ledger entry
AddAndCommitStage(rc) ==
    /\ pc = "add_git"
    /\ LET paths == StagePaths(repo) IN
       IF ~addAll /\ files = <<>>
       THEN \* "No se proporcionaron archivos": return
            /\ pc' = "dispatch"
            /\ UNCHANGED << exitCode, tree, FILES_ADDED_BY_REPO >>
       ELSE IF paths = <<>>
       THEN \* "No hay archivos validos": falls through to the commit
            /\ pc' = "commit"
            /\ UNCHANGED << exitCode, tree, FILES_ADDED_BY_REPO >>
       ELSE /\ IF rc = 0
               THEN /\ tree' = [tree EXCEPT ![repo] = GitAdd(@, paths)]
                    /\ FILES_ADDED_BY_REPO' =
                          [FILES_ADDED_BY_REPO EXCEPT ![repo] = @ \o paths]
                    /\ pc' = "commit"
                    /\ UNCHANGED exitCode
               ELSE \* run_git(check=True) raises RuntimeError
                    /\ ExitFatal
                    /\ UNCHANGED << tree, FILES_ADDED_BY_REPO >>
    /\ IF StagePaths(repo) # <<>> THEN run_git(repo) ELSE UNCHANGED called
    /\ UNCHANGED << selected, idx, callVars, TOUCHED_REPOS, BRANCH_CHANGED,
                    isRepo, unborn, branch, branches, commits,
                    revertVars, actions, ghostVars, browserVars >>

\* add_and_commit, lines 390-393: the commit message; an empty one returns
AddAndCommitCommit(msgEmpty) ==
    /\ pc = "commit"
    /\ pc' = IF msgEmpty THEN "dispatch" ELSE "commit_git"
    /\ UNCHANGED << exitCode, selected, idx, callVars, ledgerVars, gitVars,
                    revertVars, actions, called, ghostVars, browserVars >>

\* (mutant) git commit is issued with check=True
CommitCheckedTrue == TRUE

\* run_git(repo, ["commit", "-m", msg]) (line 394): check keeps its default
CommitChecked == FALSE

\* add_and_commit, lines 394-396: git commit.  It returns non-zero when rc
\* says so or when nothing is staged
AddAndCommitGitCommit(rc) ==
    /\ pc = "commit_git"
    /\ run_git(repo)
    /\ IF /\ rc = 0
          /\ \E f \in RelFiles : tree[repo][f] \in {"staged", "added"}
       THEN /\ tree' = [tree EXCEPT ![repo] = GitCommit(@)]
            /\ commits' = [commits EXCEPT ![repo] = @ + 1]
            /\ unborn' = [unborn EXCEPT ![repo] = FALSE]
            /\ branches' = [branches EXCEPT ![repo] = @ \cup {branch[repo]}]
            /\ pc' = "dispatch"
            /\ UNCHANGED exitCode
       ELSE /\ UNCHANGED << tree, commits, unborn, branches >>
            /\ IF CommitChecked
               THEN ExitFatal
               ELSE /\ pc' = "dispatch"
                    /\ UNCHANGED exitCode
    /\ UNCHANGED << selected, idx, callVars, ledgerVars, isRepo, branch,
                    revertVars, actions, ghostVars, browserVars >>

GhProbes == {"ok", "nonzero", "missing"}

\* subprocess.run(["gh", "--version"], ...) (line 471) raises
\* FileNotFoundError when there is no gh executable; nothing catches it
GhProbeRaises(probe) == probe = "missing"

\* do_action for every action but "Cambiar/crear rama", then "otra accion?".
\* The backend calls are unchecked: their results change nothing.
\* probe: the outcome of gh --version, for "Crear Pull Request"
DoAction(probe, again) ==
    /\ pc = "dispatch"
    /\ pending # "branch"
    /\ pending # "pr" => probe = "ok"
    /\ run_git(repo)
    /\ IF pending = "pr" /\ GhProbeRaises(probe)
       THEN /\ ExitFatal
            /\ UNCHANGED << idx, callVars >>
       ELSE Continue(again)
    /\ UNCHANGED << selected, ledgerVars, gitVars, revertVars,
                    actions, ghostVars, browserVars >>

----------------------------------------------------------------------------
(* ask_branch_flow and checkout_branch *)

\* (mutant) the two fields of the record are written the other way round
RecordBranchChangeSwapped(r, cur, new) == [BRANCH_CHANGED EXCEPT ![r] = << new, cur >>]

\* BRANCH_CHANGED[str(repo)] = (current, choice)   (lines 351 and 360)
RecordBranchChange(r, cur, new) == [BRANCH_CHANGED EXCEPT ![r] = << cur, new >>]

\* ask_branch_flow up to its call of checkout_branch.
\* action: "existing" or "new"; choice: the branch picked; new_name: the name typed
AskBranchFlow(action, choice, new_name, again) ==
    /\ pc = "dispatch"
    /\ pending = "branch"
    /\ LET cur == get_branches_current(repo)
           loc == get_branches_local(repo)
       IN  IF action = "existing" /\ loc # {}
           THEN /\ choice \in loc
                /\ IF choice # cur
                   THEN /\ BRANCH_CHANGED' = RecordBranchChange(repo, cur, choice)
                        /\ create' = FALSE
                        /\ pc' = "checkout"
                        /\ UNCHANGED << idx, exitCode, pending, addAll, files >>
                   ELSE /\ Continue(again)
                        /\ UNCHANGED BRANCH_CHANGED
           ELSE IF new_name = ""
           THEN /\ ExitFatal
                /\ UNCHANGED << idx, BRANCH_CHANGED, callVars >>
           ELSE /\ BRANCH_CHANGED' = RecordBranchChange(repo, cur, new_name)
                /\ create' = TRUE
                /\ pc' = "checkout"
                /\ UNCHANGED << idx, exitCode, pending, addAll, files >>
    /\ run_git(repo)
    /\ UNCHANGED << selected, TOUCHED_REPOS, FILES_ADDED_BY_REPO,
                    gitVars, revertVars, actions, ghostVars, browserVars >>

\* git checkout [-b] can succeed
CanCheckout(r, b, new) ==
    /\ isRepo[r]
    /\ IF new THEN b \notin branches[r] ELSE b \in branches[r]

\* checkout_branch (checked), the return of do_action, and "otra accion?"
CheckoutBranch(rc, again) ==
    /\ pc = "checkout"
    /\ LET b == BRANCH_CHANGED[repo][2] IN
       IF rc = 0
       THEN /\ CanCheckout(repo, b, create)
            /\ branch' = [branch EXCEPT ![repo] = b]
            /\ branches' = [branches EXCEPT ![repo] = IF unborn[repo] THEN @ ELSE @ \cup {b}]
            /\ Continue(again)
       ELSE /\ ExitFatal
            /\ UNCHANGED << idx, branch, branches, callVars >>
    /\ run_git(repo)
    /\ UNCHANGED << selected, ledgerVars, isRepo, unborn, tree, commits,
                    revertVars, actions, ghostVars, browserVars >>

----------------------------------------------------------------------------
(* SIGINT: handle_sigint and revert_changes *)

\* SIGINT is delivered (or KeyboardInterrupt reaches __main__): handle_sigint
\* is entered and calls revert_changes.  The interrupted code, which may be a
\* running revert_changes, is never resumed (the handler ends in sys.exit), so
\* its locals are dead.
HandleSigint ==
    /\ pc # "done"
    /\ pc' = "revert"
    /\ revertEntries' = IF revertEntries = 0 THEN 1 ELSE 2
    /\ rv' = [i |-> 1, step |-> "restore"]
    /\ visited' = <<>>
    /\ revertLog' = <<>>
    /\ revertRaised' = FALSE
    /\ ClearCall
    /\ UNCHANGED << exitCode, selected, idx, ledgerVars, gitVars,
                    revertAllOk, actions, called, ghostVars, browserVars >>

\* (mutant) the loop runs over the repositories with recorded staged files
RevertTargetsStaged ==
    SelectSeq(TOUCHED_REPOS, LAMBDA r : FILES_ADDED_BY_REPO[r] # << >>)

\* (mutant) the loop runs over the selected projects
RevertTargetsSelected == selected

\* for repo in TOUCHED_REPOS
RevertTargets == TOUCHED_REPOS

\* (mutant) the hard reset is left out of the loop body
StepAfterNoReset(r, step, res) ==
    IF res = "raise" THEN "next"
    ELSE CASE step = "restore"  -> "clean"
           [] step = "reset"    -> "clean"
           [] step = "clean"    -> IF BRANCH_CHANGED[r] # <<>> THEN "checkout" ELSE "next"
           [] step = "checkout" -> "next"

\* (mutant) the loop body ends after git clean
StepAfterNoCheckout(r, step, res) ==
    IF res = "raise" THEN "next"
    ELSE CASE step = "restore"  -> "reset"
           [] step = "reset"    -> "clean"
           [] step = "clean"    -> "next"
           [] step = "checkout" -> "next"

\* the step after `step` in the body of the loop; "next" = next repository
StepAfter(r, step, res) ==
    IF res = "raise" THEN "next"
    ELSE CASE step = "restore"  -> "reset"
           [] step = "reset"    -> "clean"
           [] step = "clean"    -> IF BRANCH_CHANGED[r] # <<>> THEN "checkout" ELSE "next"
           [] step = "checkout" -> "next"

\* (mutant) an exception of a rollback call leaves the loop
RvAfterRaiseEscapes(i, r, step, res) ==
    IF res = "raise" THEN [i |-> Len(RevertTargets) + 1, step |-> "restore"]
    ELSE IF StepAfter(r, step, res) = "next" THEN [i |-> i + 1, step |-> "restore"]
    ELSE [i |-> i, step |-> StepAfter(r, step, res)]

\* where the loop stands after the call `step` on the i-th repository r:
\* try/except is inside the for loop, so an exception moves to the next one
RvAfter(i, r, step, res) ==
    IF StepAfter(r, step, res) = "next" THEN [i |-> i + 1, step |-> "restore"]
    ELSE [i |-> i, step |-> StepAfter(r, step, res)]

\* one backend call of revert_changes.  res: "ok" (returns 0), "fail"
\* (returns non-zero), "raise" (the call raises; except Exception: pass)
RevertChangesStep(res) ==
    /\ pc = "revert"
    /\ rv.i <= Len(RevertTargets)
    /\ LET r    == RevertTargets[rv.i]
           cmd  == rv.step
           arg  == IF cmd = "checkout" THEN BRANCH_CHANGED[r][1] ELSE "."
       IN  /\ res = "ok" => isRepo[r]
           /\ (res = "ok" /\ cmd = "checkout") => CanCheckout(r, arg, FALSE)
           /\ tree' = IF res # "ok" THEN tree
                      ELSE CASE cmd = "restore" -> [tree EXCEPT ![r] = GitRestoreStaged(@)]
                             [] cmd = "reset"   -> [tree EXCEPT ![r] = GitResetHard(@)]
                             [] cmd = "clean"   -> [tree EXCEPT ![r] = GitCleanFd(@)]
                             [] OTHER           -> tree
           /\ branch' = IF res = "ok" /\ cmd = "checkout"
                        THEN [branch EXCEPT ![r] = arg] ELSE branch
           /\ revertLog' = IF cmd = "restore"
                           THEN << [repo |-> r, cmd |-> cmd, arg |-> arg] >>
                           ELSE Append(revertLog, [repo |-> r, cmd |-> cmd, arg |-> arg])
           /\ visited' = IF cmd = "restore" THEN Append(visited, r) ELSE visited
           /\ revertAllOk' = (revertAllOk /\ res = "ok")
           /\ revertRaised' = (res = "raise")
           /\ rv' = RvAfter(rv.i, r, cmd, res)
           /\ run_git(r)
    /\ UNCHANGED << pc, exitCode, selected, idx, callVars, ledgerVars,
                    isRepo, unborn, branches, commits, revertEntries,
                    actions, ghostVars, browserVars >>

\* the loop of revert_changes is over: handle_sigint's finally exits
RevertChangesDone ==
    /\ pc = "revert"
    /\ rv.i > Len(RevertTargets)
    /\ HandleSigintExit
    /\ UNCHANGED << selected, idx, callVars, ledgerVars, gitVars, revertVars,
                    actions, called, ghostVars, browserVars >>

----------------------------------------------------------------------------
(* The session *)

Outcomes == {"ok", "init_fails", "setup_fails"}
TypedNames == {"", "feat"}       \* what the operator types as a new branch name
ReturnCodes == {0, 1}
Results == {"ok", "fail", "raise"}

\* every step of the main thread
MainNext ==
    \/ LoadProjectsFail
    \/ \E sel \in Selections : ChooseProjects(sel)
    \/ \E confirm \in BOOLEAN : EnsureCleanRepo(confirm)
    \/ \E outcome \in Outcomes : EnsureInit(outcome)
    \/ \E a \in ActionKinds : AskAction(a)
    \/ \E stage, include_all, more \in BOOLEAN, p1, p2 \in BrowseResults :
          MaybeStageAndCommit(stage, include_all, p1, more, p2)
    \/ AddAndCommitTouch
    \/ \E rc \in ReturnCodes : AddAndCommitStage(rc)
    \/ \E msgEmpty \in BOOLEAN : AddAndCommitCommit(msgEmpty)
    \/ \E rc \in ReturnCodes : AddAndCommitGitCommit(rc)
    \/ \E probe \in GhProbes, again \in BOOLEAN : DoAction(probe, again)
    \/ \E action \in {"existing", "new"}, choice \in BranchNames,
          new_name \in TypedNames, again \in BOOLEAN :
          AskBranchFlow(action, choice, new_name, again)
    \/ \E rc \in ReturnCodes, again \in BOOLEAN : CheckoutBranch(rc, again)

\* every step of the handler once it is entered
RevertNext ==
    \/ \E res \in Results : RevertChangesStep(res)
    \/ RevertChangesDone

Next ==
    \/ MainNext
    \/ HandleSigint
    \/ RevertNext

Spec == Init /\ [][Next]_vars

\* The operator cancels once, at any point of the session, and every backend
\* call of the handler returns or raises: revert_changes is a plain
\* sequential loop.
HandleSigintOnce == HandleSigint /\ revertEntries = 0

FairNext ==
    \/ MainNext
    \/ HandleSigintOnce
    \/ RevertNext

FairSpec ==
    /\ Init
    /\ [][FairNext]_vars
    /\ WF_vars(\E res \in Results : RevertChangesStep(res))
    /\ WF_vars(RevertChangesDone)

----------------------------------------------------------------------------
(* browse_and_select_files on a small directory tree.  Absolute paths are   *)
(* sequences of components; the repository is /home/repo.                   *)

repo_path == <<"home", "repo">>

FsDirs == { <<"home">>, repo_path, repo_path \o <<"sub">>, repo_path \o <<"sub", "deep">> }
FsFiles == { <<"home", "other.txt">>,
             repo_path \o <<"a.txt">>,
             repo_path \o <<"sub", "a.txt">>,
             repo_path \o <<"sub", "b.txt">>,
             repo_path \o <<"sub", "deep", "c.txt">> }

\* the names of the tree in the order of sorted(key=name.lower())
NameOrder == <<"a.txt", "b.txt", "c.txt", "deep", "other.txt", "repo", "sub">>

\* Path.parent
Parent(p) == SubSeq(p, 1, Len(p) - 1)

\* Path.relative_to(base): the components after base; ValueError when p is
\* not under base
IsRelativeTo(p, base) == IsPrefix(base, p)
relative_to(p, base) == SubSeq(p, Len(base) + 1, Len(p))

\* the entries of directory d that are in `kind`, sorted by name
ListDir(d, kind) ==
    LET names == SelectSeq(NameOrder, LAMBDA n : Append(d, n) \in kind)
    IN  [i \in 1..Len(names) |-> Append(d, names[i])]

\* (mutant) the [Subir] row is offered in every directory
ControlsAlwaysParent(cur) ==
    << [kind |-> "control", target |-> Parent(cur), label |-> ".."],
       [kind |-> "control", target |-> << >>, label |-> "[Terminar]"] >>

\* the control rows of the table (lines 172-175)
Controls(cur) ==
    (IF cur # repo_path
     THEN << [kind |-> "control", target |-> Parent(cur), label |-> ".."] >>
     ELSE << >>)
    \o << [kind |-> "control", target |-> << >>, label |-> "[Terminar]"] >>

\* index_map (lines 176-201): controls, then directories, then files;
\* a directory that raises PermissionError lists as empty
index_map(cur, readable) ==
    LET dirs  == IF readable THEN ListDir(cur, FsDirs) ELSE << >>
        fls   == IF readable THEN ListDir(cur, FsFiles) ELSE << >>
    IN  Controls(cur)
        \o [i \in 1..Len(dirs) |-> [kind |-> "dir", target |-> dirs[i], label |-> dirs[i][Len(dirs[i])]]]
        \o [i \in 1..Len(fls) |-> [kind |-> "file", target |-> fls[i], label |-> fls[i][Len(fls[i])]]]

\* (mutant) a chosen file is put in front of the selection
ChooseFilePrepend(sel, fpath) ==
    IF fpath \in Range(sel) THEN sel ELSE << fpath >> \o sel

\* the branch `elif kind == "file"` (lines 261-271) on the selection
ChooseFile(sel, fpath) ==
    IF fpath \in Range(sel) THEN sel ELSE Append(sel, fpath)

\* [str(p.relative_to(repo_path)) for p in selected]
RelativeSelection(sel) == [i \in 1..Len(sel) |-> relative_to(sel[i], repo_path)]

BrowserStart ==
    /\ current = repo_path
    /\ bselected = << >>
    /\ returned = << >>
    /\ bpc = "browsing"

\* the prompt is answered with the empty string (line 205)
BrowseEmpty ==
    /\ bpc = "browsing"
    /\ UNCHANGED << browserVars, sessionVars >>

\* the prompt is answered with the inverted exclamation mark (line 208):
\* ai_panel is not defined anywhere, the call raises NameError
BrowseAiPanel ==
    /\ bpc = "browsing"
    /\ bpc' = "crashed"
    /\ UNCHANGED << current, bselected, returned, sessionVars >>

\* 'l': list the selection (lines 211-219)
BrowseList ==
    /\ bpc = "browsing"
    /\ UNCHANGED << browserVars, sessionVars >>

\* 'b': remove the last entry (lines 221-227)
BrowseRemoveLast ==
    /\ bpc = "browsing"
    /\ bselected' = IF bselected # << >>
                    THEN SubSeq(bselected, 1, Len(bselected) - 1)
                    ELSE bselected
    /\ UNCHANGED << current, returned, bpc, sessionVars >>

\* an answer int() rejects (lines 229-233)
BrowseInvalid ==
    /\ bpc = "browsing"
    /\ UNCHANGED << browserVars, sessionVars >>

\* a number is typed (lines 235-271)
BrowseIndex(num, readable, confirm) ==
    /\ bpc = "browsing"
    /\ LET m == index_map(current, readable) IN
       IF num \notin 1..Len(m)
       THEN UNCHANGED browserVars
       ELSE LET e == m[num] IN
            CASE e.kind = "control" /\ e.label = ".." ->
                    /\ current' = e.target
                    /\ UNCHANGED << bselected, returned, bpc >>
              [] e.kind = "control" /\ e.label # ".." ->
                    IF confirm
                    THEN /\ returned' = RelativeSelection(bselected)
                         /\ bpc' = "returned"
                         /\ UNCHANGED << current, bselected >>
                    ELSE UNCHANGED browserVars
              [] e.kind = "dir" ->
                    /\ current' = e.target
                    /\ UNCHANGED << bselected, returned, bpc >>
              [] e.kind = "file" ->
                    /\ bselected' = ChooseFile(bselected, e.target)
                    /\ bpc' = IF e.target \in Range(bselected) \/ IsRelativeTo(e.target, repo_path)
                              THEN bpc ELSE "crashed"
                    /\ UNCHANGED << current, returned >>
    /\ UNCHANGED sessionVars

Indices == 0..(Cardinality(FsFiles) + 1)

BrowserInit == SessionInit /\ BrowserStart

BrowserNext ==
    \/ BrowseEmpty
    \/ BrowseAiPanel
    \/ BrowseList
    \/ BrowseRemoveLast
    \/ BrowseInvalid
    \/ \E num \in Indices, readable, confirm \in BOOLEAN : BrowseIndex(num, readable, confirm)

BrowserSpec == BrowserInit /\ [][BrowserNext]_vars

----------------------------------------------------------------------------
(* Properties *)

\* the repositories of TOUCHED_REPOS in the order they were first touched
FirstTouched == Accumulate(<<>>, TOUCHED_REPOS)

\* a rollback has run to its end and the process has exited with 130
Cancelled == pc = "done" /\ exitCode = 130

\* C1: for every repository, the branch-change record keeps as "old" the branch
\* the repository was on before the session's first change, and every checkout
\* the rollback issues goes to that branch.
C1_RecordKeepsOriginalBranch ==
    /\ \A r \in Repos :
          (/\ isRepo0[r]
           /\ BRANCH_CHANGED[r] # <<>>
           /\ BRANCH_CHANGED[r][1] # BRANCH_CHANGED[r][2]
           /\ branch[r] = BRANCH_CHANGED[r][2])      \* the change was carried out
             => BRANCH_CHANGED[r][1] = branch0[r]
    /\ \A i \in 1..Len(revertLog) :
          (revertLog[i].cmd = "checkout" /\ isRepo0[revertLog[i].repo])
             => revertLog[i].arg = branch0[revertLog[i].repo]

\* C2: a rollback pass visits each touched repository once, in first-touched
\* order, however many staging attempts were made on it.
C2_EachTouchedRepoVisitedOnce ==
    /\ NoDup(visited)
    /\ IsPrefix(visited, FirstTouched)
    /\ Cancelled => visited = FirstTouched

\* C3: in every run revert_changes is entered at most once, also when a second
\* SIGINT arrives while the rollback is running.
C3_RevertEnteredAtMostOnce == revertEntries <= 1

\* what a tree is once its index and working tree equal HEAD: edits to tracked
\* files gone, untracked files gone
AtHead(t0, t) ==
    \A f \in RelFiles :
        t[f] = IF t0[f] = "modified" THEN "clean"
               ELSE IF t0[f] = "untracked" THEN "absent"
               ELSE t0[f]

\* a repository staged in this session, never committed, and rolled back with
\* every rollback call returning 0
StagedThenCancelled(r) ==
    /\ Cancelled
    /\ revertAllOk
    /\ r \in Range(TOUCHED_REPOS)
    /\ FILES_ADDED_BY_REPO[r] # <<>>
    /\ commits[r] = 0

\* C4 (as claimed): staging then cancelling before the commit leaves the
\* working tree and index as they were before the session.
C4_StageCancelRestoresPreSession ==
    \A r \in Repos : StagedThenCancelled(r) => tree[r] = tree0[r]

\* C4 (amended): staging then cancelling before the commit leaves, when the
\* rollback calls succeed, the working tree and index equal to HEAD: the edits
\* and untracked files that existed before the session are discarded.
C4_StageCancelResetsToHead ==
    \A r \in Repos : StagedThenCancelled(r) => AtHead(tree0[r], tree[r])

C4_Witness ==
    /\ StagedThenCancelled("r1")
    /\ tree0["r1"][<<"a.txt">>] = "modified"
    /\ tree0["r1"][<<"sub", "b.txt">>] = "untracked"
    /\ tree["r1"][<<"a.txt">>] = "clean"
    /\ tree["r1"][<<"sub", "b.txt">>] = "absent"

\* C5: choosing a listed file twice in a row leaves the selection as it was.
C5_ChooseTwiceRestoresSelection ==
    bpc = "browsing" =>
        \A readable \in BOOLEAN :
            LET m == index_map(current, readable) IN
            \A n \in 1..Len(m) :
                m[n].kind = "file" =>
                    ChooseFile(ChooseFile(bselected, m[n].target), m[n].target) = bselected

\* C6: the cursor is the repository root or a directory below it, [Subir] is
\* not offered at the root, the selection has no duplicate, and the list
\* returned on finish has no duplicate and only root-relative paths of files
\* inside the root.
C6_CursorAndSelectionWithinRoot ==
    /\ current \in FsDirs
    /\ IsPrefix(repo_path, current)
    /\ current = repo_path =>
          \A readable \in BOOLEAN :
              LET m == index_map(current, readable) IN
              \A n \in 1..Len(m) : m[n].label # ".."
    /\ NoDup(bselected)
    /\ \A i \in 1..Len(bselected) :
          bselected[i] \in FsFiles /\ IsPrefix(repo_path, bselected[i])
    /\ NoDup(returned)
    /\ \A i \in 1..Len(returned) :
          /\ returned[i] # << >>
          /\ ".." \notin Range(returned[i])
          /\ ~IsPrefix(repo_path, returned[i])
          /\ repo_path \o returned[i] \in FsFiles

C6_Witness ==
    /\ bpc = "returned"
    /\ current = repo_path
    /\ returned = << <<"sub", "b.txt">>, <<"a.txt">>, <<"sub", "deep", "c.txt">> >>

\* C7: after a staging attempt (git add issued with paths or "."), whether it
\* succeeds or fails, the staged-file record of the repository contains what
\* was passed to git add.
C7_StageAttemptAlwaysRecorded ==
    [][ (pc = "add_git" /\ pc' # "revert" /\ StagePaths(repo) # <<>>)
          => \A i \in 1..Len(StagePaths(repo)) :
                StagePaths(repo)[i] \in Range(FILES_ADDED_BY_REPO'[repo]) ]_vars

\* C8: after a rollback whose calls all succeed, every repository with a
\* branch-change record is back on the branch it was on before the session.
C8_CancelRestoresEveryChangedBranch ==
    (Cancelled /\ revertAllOk) =>
        \A r \in Repos :
            (isRepo0[r] /\ BRANCH_CHANGED[r] # <<>>) => branch[r] = branch0[r]

\* C9: from the SIGINT on, every backend call is issued against a touched
\* repository, no commit is removed, and a repository on which no staging was
\* attempted keeps its branch, branches, index and working tree.
C9_RollbackConfined ==
    [][ (pc' = "revert" \/ pc = "revert") =>
          /\ commits' = commits
          /\ \A i \in 1..Len(revertLog') : revertLog'[i].repo \in Range(TOUCHED_REPOS)
          /\ Range(visited') \subseteq Range(TOUCHED_REPOS)
          /\ \A r \in Repos \ Range(TOUCHED_REPOS) :
                /\ tree'[r] = tree[r]
                /\ branch'[r] = branch[r]
                /\ branches'[r] = branches[r]
                /\ isRepo'[r] = isRepo[r] ]_vars

C9_Witness ==
    /\ Cancelled
    /\ selected = <<"r1", "r2">>
    /\ idx = 2
    /\ TOUCHED_REPOS = <<"r1">>
    /\ visited = <<"r1">>
    /\ commits["r1"] = 1
    /\ tree["r2"] = tree0["r2"]
    /\ branch["r2"] = branch0["r2"]

\* C10: a run that ends with exit code 0 or 1 has never entered revert_changes
\* and has issued no rollback call, whatever the ledgers hold.
C10_NoRollbackWithoutCancellation ==
    /\ exitCode \in {0, 1} => revertEntries = 0
    /\ revertEntries = 0 => (visited = <<>> /\ revertLog = <<>> /\ pc # "revert")

C10_Witness ==
    /\ pc = "done"
    /\ exitCode = 1
    /\ TOUCHED_REPOS # <<>>
    /\ BRANCH_CHANGED["r1"] # <<>>
    /\ revertEntries = 0

\* C11: once a cancellation was received the process ends, with exit code
\* 130, and when it has ended the rollback pass has started on every entry of
\* the touched list, also when rollback calls fail or raise.
C11_CancellationEndsWith130AfterRollback ==
    /\ (revertEntries > 0) ~> Cancelled
    /\ []((revertEntries > 0 /\ pc = "done") =>
            (exitCode = 130 /\ visited = TOUCHED_REPOS))

C11_Witness ==
    /\ Cancelled
    /\ ~revertAllOk
    /\ TOUCHED_REPOS = <<"r1", "r2">>
    /\ visited = TOUCHED_REPOS
    /\ tree["r1"][<<"a.txt">>] # "clean"

\* C12: when the path at hand is not a repository and the operator declines
\* to initialise it, the process exits with code 1 in that very step: no
\* backend command has been or is issued against the path, nothing on disk
\* changes, the loop does not advance, and nothing happens after the exit.
C12_DeclinedInitExitsOneUntouched ==
    [][ /\ pc # "done"
        /\ (pc = "ensure" /\ ~isRepo[repo] /\ pc' \notin {"init", "revert"}) =>
              /\ pc' = "done"
              /\ exitCode' = 1
              /\ called' = called
              /\ repo \notin called'
              /\ idx' = idx
              /\ << isRepo, unborn, branch, branches, tree, commits >>'
                    = << isRepo, unborn, branch, branches, tree, commits >>
              /\ \A j \in (idx + 1)..Len(selected) : selected[j] \notin called' ]_vars

C12_Witness ==
    /\ pc = "done"
    /\ exitCode = 1
    /\ selected = <<"r2", "r1">>
    /\ idx = 1
    /\ ~isRepo["r2"]
    /\ called = {}
    /\ tree = tree0

\* C13: every step of the browser leaves the selection as it is, removes its
\* last entry, or adds a file of the directory at hand at its end; and the
\* list returned on finishing is that selection, entry by entry and in the
\* same order, each path taken relative to the repository root.
C13_ReturnsAdditionOrderRelative ==
    [][ /\ \/ bselected' = bselected
           \/ /\ bselected # << >>
              /\ bselected' = SubSeq(bselected, 1, Len(bselected) - 1)
           \/ \E f \in FsFiles :
                 /\ Parent(f) = current
                 /\ f \notin Range(bselected)
                 /\ bselected' = Append(bselected, f)
        /\ bpc' = "returned" =>
              /\ bselected' = bselected
              /\ Len(returned') = Len(bselected)
              /\ \A i \in 1..Len(bselected) : repo_path \o returned'[i] = bselected[i] ]_vars

\* a.txt chosen at the root, sub/ entered, b.txt chosen, finished
C13_Witness ==
    /\ bpc = "returned"
    /\ current = repo_path \o <<"sub">>
    /\ returned = << <<"a.txt">>, <<"sub", "b.txt">> >>

\* C14: when the branch flow runs on a repository with no local branch,
\* whichever of "existing" and "new" is picked, it asks for a name: the empty
\* name ends the process with code 1, any other name is recorded against the
\* current branch and handed to git checkout -b, after which the repository
\* is on that branch.
C14_ExistingWithNoBranchesCreates ==
    [][ /\ (/\ pc = "dispatch"
            /\ pending = "branch"
            /\ get_branches_local(repo) = {}
            /\ pc' # "revert") =>
              \/ /\ pc' = "done"
                 /\ exitCode' = 1
                 /\ BRANCH_CHANGED' = BRANCH_CHANGED
              \/ /\ pc' = "checkout"
                 /\ create'
                 /\ BRANCH_CHANGED'[repo] # << >>
                 /\ BRANCH_CHANGED'[repo][1] = get_branches_current(repo)
                 /\ BRANCH_CHANGED'[repo][2] \notin {"", get_branches_current(repo)}
        /\ (pc = "checkout" /\ create /\ pc' \notin {"revert", "done"}) =>
              /\ branch'[repo] = BRANCH_CHANGED[repo][2]
              /\ BRANCH_CHANGED' = BRANCH_CHANGED ]_vars

C14_Witness ==
    /\ pc = "menu"
    /\ repo = "r2"
    /\ unborn["r2"]
    /\ get_branches_local("r2") = {}
    /\ branch["r2"] = "feat"
    /\ BRANCH_CHANGED["r2"] = <<"HEAD", "feat">>
    /\ exitCode = NoExit

\* C15: as long as no rollback has run, a repository with an entry in the
\* branch-change ledger is on the branch the entry names as the new one: the
\* entry is there only once the checkout has been carried out.
C15_LedgerEntryOnlyAfterCheckout ==
    revertEntries = 0 =>
        \A r \in Repos :
            BRANCH_CHANGED[r] # << >> => branch[r] = BRANCH_CHANGED[r][2]

\* C16: the first step of add_and_commit appends the repository to the
\* touched list and does nothing else; from then on, through git add and
\* git commit and whatever their outcome (git add fails, no file was
\* supplied, none of the supplied files exists), it stays in the list; and a
\* cancelled run has started the rollback on every entry of the list.
C16_TouchedAtEntryOfAddAndCommit ==
    /\ [](pc \in {"add_git", "commit", "commit_git"} =>
            (TOUCHED_REPOS # << >> /\ TOUCHED_REPOS[Len(TOUCHED_REPOS)] = repo))
    /\ [][ /\ (pc = "add_entry" /\ pc' # "revert") =>
                /\ TOUCHED_REPOS' = Append(TOUCHED_REPOS, repo)
                /\ called' = called
                /\ tree' = tree
                /\ FILES_ADDED_BY_REPO' = FILES_ADDED_BY_REPO
          /\ pc \in {"add_git", "commit", "commit_git"} =>
                (TOUCHED_REPOS' = TOUCHED_REPOS /\ repo \in Range(TOUCHED_REPOS')) ]_vars
    /\ [](Cancelled => Range(TOUCHED_REPOS) \subseteq Range(visited))

\* add_and_commit was entered and nothing was staged: the repository is in
\* the touched list, and the cancelled run has reset and cleaned it
C16_Witness ==
    /\ Cancelled
    /\ revertAllOk
    /\ TOUCHED_REPOS = <<"r2">>
    /\ FILES_ADDED_BY_REPO["r2"] = << >>
    /\ commits["r2"] = 0
    /\ visited = <<"r2">>
    /\ tree0["r2"][<<"a.txt">>] = "modified"
    /\ tree["r2"][<<"a.txt">>] = "clean"

\* C17: the calls the running pass has issued on a repository are a prefix of
\* restore --staged, reset --hard, clean -fd, followed by checkout of the
\* recorded old branch exactly when the repository has a branch-change
\* record; the sequence is complete whenever the pass left the repository
\* without a call having raised, also after non-zero results; and a cancelled
\* run has started on every entry of the touched list, whatever failed.
C17_RollbackOrderPerRepository ==
    /\ revertLog # << >> =>
          LET r == revertLog[1].repo
              want == << [repo |-> r, cmd |-> "restore", arg |-> "."],
                         [repo |-> r, cmd |-> "reset", arg |-> "."],
                         [repo |-> r, cmd |-> "clean", arg |-> "."] >>
                      \o (IF BRANCH_CHANGED[r] # << >>
                          THEN << [repo |-> r, cmd |-> "checkout",
                                   arg |-> BRANCH_CHANGED[r][1]] >>
                          ELSE << >>)
          IN  /\ IsPrefix(revertLog, want)
              /\ (rv.step = "restore" /\ ~revertRaised) => revertLog = want
    /\ Cancelled => visited = TOUCHED_REPOS

\* the calls on r1 did not succeed, and r2, touched later, was still reset
C17_Witness ==
    /\ Cancelled
    /\ TOUCHED_REPOS = <<"r1", "r2">>
    /\ visited = <<"r1", "r2">>
    /\ tree["r1"][<<"a.txt">>] \in {"modified", "staged"}
    /\ tree["r2"][<<"a.txt">>] = "clean"
    /\ commits["r2"] = 0
    /\ Len(revertLog) = 3
    /\ ~revertRaised

\* C18: the "Crear Pull Request" action never ends the process: whatever the
\* probe of gh gives, do_action returns, the ledgers are as before, and the
\* loop goes on with "otra accion?" (the menu again, the next project, or
\* the normal end of main with exit code 0).
C18_ReviewRequestNeverFatal ==
    [][ (pc = "dispatch" /\ pending = "pr" /\ pc' # "revert") =>
          /\ \/ pc' \in {"menu", "ensure"} /\ exitCode' = NoExit
             \/ pc' = "done" /\ exitCode' = 0
          /\ << TOUCHED_REPOS, FILES_ADDED_BY_REPO, BRANCH_CHANGED >>'
                = << TOUCHED_REPOS, FILES_ADDED_BY_REPO, BRANCH_CHANGED >> ]_vars

\* C19: no answer to the prompt of the browser makes it crash.
C19_RejectedInputNeverCrashes == bpc # "crashed"

\* C20: the pre-publish check and the staging it starts run only for Push,
\* Push -u and Create Pull Request, and such an action is dispatched only
\* after them; Pull, Fetch, Status and Log are dispatched straight from the
\* menu, leave the three ledgers as they are, and are followed by "otra
\* accion?" (the menu, the next project, or the normal end of main).
C20_StagingCheckOnlyBeforePublish ==
    [][ /\ pc' \in {"prepublish", "add_entry", "add_git", "commit", "commit_git"} =>
              pending' \in {"push", "push_u", "pr"}
        /\ (pc' = "dispatch" /\ pending' \in {"push", "push_u", "pr"}) =>
              pc \in {"prepublish", "add_git", "commit", "commit_git"}
        /\ pending' \in {"pull", "fetch", "status", "log"} =>
              /\ pc' = "dispatch"
              /\ << TOUCHED_REPOS, FILES_ADDED_BY_REPO, BRANCH_CHANGED >>'
                    = << TOUCHED_REPOS, FILES_ADDED_BY_REPO, BRANCH_CHANGED >>
        /\ (pending \in {"pull", "fetch", "status", "log"} /\ pc' # "revert") =>
              /\ << TOUCHED_REPOS, FILES_ADDED_BY_REPO, BRANCH_CHANGED >>'
                    = << TOUCHED_REPOS, FILES_ADDED_BY_REPO, BRANCH_CHANGED >>
              /\ \/ pc' \in {"menu", "ensure"} /\ exitCode' = NoExit
                 \/ pc' = "done" /\ exitCode' = 0 ]_vars

\* Pull is dispatched straight from the menu while the ledgers hold entries
C20_Witness ==
    /\ pc = "dispatch"
    /\ pending = "pull"
    /\ TOUCHED_REPOS = <<"r1">>
    /\ FILES_ADDED_BY_REPO["r1"] # << >>
    /\ called = {"r1"}

\* C21: an empty commit message takes add_and_commit straight back to main:
\* no backend command is issued, the index, the tree and the ledgers are as
\* they were, and the pending publish action is dispatched; and when git
\* commit is issued, whatever it returns, the process goes on and the pending
\* publish action is dispatched, the index untouched unless a commit was made.
C21_EmptyMessageOrFailedCommitNotFatal ==
    [][ /\ (pc = "commit" /\ pc' \notin {"commit_git", "revert"}) =>
              /\ pc' = "dispatch"
              /\ exitCode' = NoExit
              /\ pending' = pending
              /\ pending \in {"push", "push_u", "pr"}
              /\ called' = called
              /\ tree' = tree
              /\ commits' = commits
              /\ << TOUCHED_REPOS, FILES_ADDED_BY_REPO, BRANCH_CHANGED >>'
                    = << TOUCHED_REPOS, FILES_ADDED_BY_REPO, BRANCH_CHANGED >>
        /\ (pc = "commit_git" /\ pc' # "revert") =>
              /\ pc' = "dispatch"
              /\ exitCode' = NoExit
              /\ pending' = pending
              /\ pending \in {"push", "push_u", "pr"}
              /\ commits' = commits => tree' = tree ]_vars

\* a.txt was staged and not committed, and Push is about to be dispatched
C21_Witness ==
    /\ pc = "dispatch"
    /\ pending = "push"
    /\ repo = "r1"
    /\ TOUCHED_REPOS = <<"r1">>
    /\ FILES_ADDED_BY_REPO["r1"] = << <<"a.txt">> >>
    /\ tree["r1"][<<"a.txt">>] = "staged"
    /\ commits["r1"] = 0

\* C22: in every step the touched list keeps its entries and their order and
\* at most gains entries at its end, and so does the staged-file list of
\* every repository.
C22_LedgersOnlyGrow ==
    [][ /\ IsPrefix(TOUCHED_REPOS, TOUCHED_REPOS')
        /\ \A r \in Repos :
              IsPrefix(FILES_ADDED_BY_REPO[r], FILES_ADDED_BY_REPO'[r]) ]_vars

\* r1 was staged twice, and a rollback with a failing call has run
C22_Witness ==
    /\ Cancelled
    /\ ~revertAllOk
    /\ TOUCHED_REPOS = <<"r1", "r1">>
    /\ Len(FILES_ADDED_BY_REPO["r1"]) = 2

\* C23: each call of the rollback, and the position of the loop after it, is
\* a function of the touched list, the branch-change ledger and whether the
\* call raised; the staged-file ledger does not enter.  So two sessions with
\* the same touched list and branch-change ledger issue the same calls
\* whatever their staged-file ledgers, and after a rollback whose calls all
\* succeed every touched repository has no staged, edited or untracked file.
C23_RollbackIgnoresStagedLedger ==
    /\ [][ (pc = "revert" /\ pc' = "revert" /\ revertLog' # << >>) =>
            /\ rv.i \in 1..Len(TOUCHED_REPOS)
            /\ LET r    == TOUCHED_REPOS[rv.i]
                   last == IF BRANCH_CHANGED[r] # << >> THEN "checkout" ELSE "clean"
               IN  /\ revertLog'[Len(revertLog')] =
                         [repo |-> r, cmd |-> rv.step,
                          arg |-> IF rv.step = "checkout" THEN BRANCH_CHANGED[r][1] ELSE "."]
                   /\ rv' = IF revertRaised' \/ rv.step = last
                            THEN [i |-> rv.i + 1, step |-> "restore"]
                            ELSE [i |-> rv.i,
                                  step |-> CASE rv.step = "restore" -> "reset"
                                             [] rv.step = "reset"   -> "clean"
                                             [] OTHER               -> "checkout"] ]_vars
    /\ []((Cancelled /\ revertAllOk) =>
            \A r \in Range(TOUCHED_REPOS), f \in RelFiles :
                tree[r][f] \in {"clean", "absent"})

\* r1 with a recorded staged file and r2 with none: both reset and cleaned
C23_Witness ==
    /\ Cancelled
    /\ revertAllOk
    /\ TOUCHED_REPOS = <<"r1", "r2">>
    /\ FILES_ADDED_BY_REPO["r1"] # << >>
    /\ FILES_ADDED_BY_REPO["r2"] = << >>
    /\ tree0["r2"][<<"a.txt">>] = "modified"
    /\ \A r \in Repos, f \in RelFiles : tree[r][f] \in {"clean", "absent"}

====
